---- MODULE Spec2Model ----
(***************************************************************************)
(* Attendance verification engine of the employee management front-end     *)
(* (src/main.js, EmployeeManagementSystem.verifyAttendance and the checks  *)
(* it composes).                                                           *)
(*                                                                         *)
(* Numbers.  JavaScript numbers are modelled by integers:                  *)
(*   - coordinates are kept in metres of arc (R * angle in radians) and    *)
(*     every sample lies on the office meridian, where the haversine       *)
(*     formula reduces to R * |dphi| = |lat2 - lat1|;                      *)
(*   - timestamps are epoch milliseconds, local time = epoch time;         *)
(*   - quotients (seconds, speeds, means) are kept as exact fractions and  *)
(*     compared by cross-multiplication.                                   *)
(* JavaScript's undefined/null is the value Absent.                        *)
(***************************************************************************)
EXTENDS Integers, Sequences, FiniteSets, TLC

\* ------------------------------------------------------------------ bounds
MaxRecent == 3
MaxHistory == 2

\* ------------------------------------------------------- program constants
MAX_DISTANCE == 500
maxSpeed == 50
maxSpeedChange == 20
minAltitude == 800
maxAltitude == 2000
checkInTolerance == 120
maxCheckOutSpan == 600

\* undefined / null of a JavaScript value
Absent == -1

\* office point, metres of arc (35.7 N, 51.4 E)
OfficeLat == 3969674
OfficeLon == 5715448

\* ---------------------------------------------------------------- helpers
Abs(x) == IF x < 0 THEN 0 - x ELSE x

Falsy_absentOnly(x) == x = Absent

\* !x of JavaScript for a number that may be undefined
Falsy(x) == x = Absent \/ x = 0

RECURSIVE GCD(_, _)
GCD(a, b) == IF b = 0 THEN a ELSE GCD(b, a % b)

\* exact fractions <<numerator, denominator>>, denominator > 0
Rat(n, d) ==
    LET g == GCD(Abs(n), Abs(d))
        s == IF d < 0 THEN 0 - 1 ELSE 1
    IN  <<(s * n) \div g, (s * d) \div g>>
RatAdd(p, q) == Rat(p[1] * q[2] + q[1] * p[2], p[2] * q[2])
RatSub(p, q) == Rat(p[1] * q[2] - q[1] * p[2], p[2] * q[2])
RatAbs(p) == <<Abs(p[1]), p[2]>>
RatLess(p, q) == p[1] * q[2] < q[1] * p[2]
RatLeq(p, q) == p[1] * q[2] <= q[1] * p[2]

RECURSIVE RatSum(_)
RatSum(s) == IF s = <<>> THEN <<0, 1>> ELSE RatAdd(s[1], RatSum(Tail(s)))

RECURSIVE SumSeq(_)
SumSeq(s) == IF s = <<>> THEN 0 ELSE s[1] + SumSeq(Tail(s))

SeqsUpTo(S, n) == UNION {[1..k -> S] : k \in 0..n}

\* getHours() * 60 + getMinutes() of new Date(ts)
MinuteOfDay(ts) == (ts \div 60000) % 1440

\* metadata object: a function from the keys that were set
EmptyMeta == [k \in {} |-> Absent]
Put(m, k, v) == [x \in (DOMAIN m) \cup {k} |-> IF x = k THEN v ELSE m[x]]
Has(m, k) == k \in DOMAIN m

\* ------------------------------------------------------------------ state
VARIABLES
    antiSpoofing,        \* config.GPS.ANTI_SPOOFING
    recentLocations,     \* gpsTracker.getRecentLocations(), oldest first
    userAttendance,      \* attendance.getUserAttendance(user, 30)
    settings,            \* storage.get('settings')
    now,                 \* the clock, epoch ms
    pc,                  \* position of the verifyAttendance call
    type,                \* argument of the call
    verification,        \* the verdict under construction / returned
    fix,                 \* what getCurrentLocation produced in this call
    gpsVerification,     \* result of verifyGPSLocation
    timeVerification,    \* result of verifyAttendanceTime
    patternVerification, \* result of verifyAttendancePattern
    log,                 \* collaborator calls of this call, in order
    currentUser,         \* this.currentUser
    attendanceRecords,   \* records persisted through attendance.record
    userPermissions,     \* this.userPermissions
    recordPc,            \* position of the recordAttendance call
    loading,             \* the loading indicator: never shown, shown, hidden
    isSyncing,           \* syncManager.isSyncing
    syncRun,             \* per trigger: the syncOfflineData call it made
    attendanceQueue,     \* service worker: stored 'attendance_queue'
    swRun,               \* service worker: the syncAttendanceData runs
    posted,              \* records the server accepted
    queued,              \* records ever stored in the queue
    clientMessages,      \* SYNC_COMPLETE messages posted to the clients
    probe,               \* a check applied on its own: its input and result
    prev                 \* the previous call: its inputs and its verdict

vars == <<antiSpoofing, recentLocations, userAttendance, settings, now, pc,
          type, verification, fix, gpsVerification, timeVerification,
          patternVerification, log, currentUser, attendanceRecords,
          userPermissions, recordPc, loading, isSyncing, syncRun,
          attendanceQueue, swRun, posted, queued, clientMessages, probe,
          prev>>

env == <<antiSpoofing, recentLocations, userAttendance, settings, now>>

offlineSync == <<isSyncing, syncRun>>

worker == <<attendanceQueue, swRun, posted, queued, clientMessages>>

stores == <<currentUser, attendanceRecords, userPermissions, recordPc, loading,
            offlineSync, worker>>

aux == <<probe, prev>>

\* ------------------------------------------------------------ input space
Types == {"check_in", "check_out"}

Today == 10 * 86400000

Clocks == {Today + m * 60000 + 30000 : m \in {359, 360, 480, 1081}}

\* the stored settings object: no workStartTime, or "07:59" as <<7, 59>>
WorkStartSettings == {EmptyMeta, [k \in {"workStartTime"} |-> <<7, 59>>]}

RecentOffsets == {0, 400}

\* the tracker's window: samples 10 s apart, the newest 8 s before the clock
RecentWindow(offs, clock) ==
    [i \in 1..Len(offs) |->
        [latitude |-> OfficeLat + offs[i], longitude |-> OfficeLon,
         accuracy |-> 10, altitude |-> Absent,
         timestamp |-> clock - 8000 - (Len(offs) - i) * 10000]]

HistoryRecords ==
    { [type |-> "check_in",  timestamp |-> 9 * 86400000 + 480 * 60000],
      [type |-> "check_in",  timestamp |-> 8 * 86400000 + 600 * 60000 + 45000],
      [type |-> "check_out", timestamp |-> 9 * 86400000 + 1080 * 60000] }

Sample(lat, lon, alt, ts) ==
    [kind |-> "sample", latitude |-> lat, longitude |-> lon, accuracy |-> 10,
     altitude |-> alt, timestamp |-> ts]

\* outcomes of getCurrentLocation
Fixes(clock) ==
    { [kind |-> "throw"], [kind |-> "null"] }
    \cup { Sample(OfficeLat + d, OfficeLon, Absent, clock) : d \in {0, 500, 501} }
    \cup { Sample(OfficeLat, OfficeLon, alt, clock) : alt \in {800, 2001} }
    \cup { Sample(0, OfficeLon, Absent, clock),
           Sample(Absent, Absent, Absent, clock),
           Sample(OfficeLat, 0, Absent, clock) }

NoLocation == [kind |-> "null"]
NoProbe == [fn |-> "none"]
NoCall == [pc |-> "none"]
NotRun == [verified |-> FALSE, reason |-> "not run"]

\* ----------------------------------------------------- the checks (pure)
\* haversine distance in metres; on one meridian R * c = R * |dphi|
calculateDistance(lat1, lon1, lat2, lon2) == Abs(lat2 - lat1)

\* gpsTracker.isInOfficeRange: distance to the office point <= max distance
isInOfficeRange(lat, lon) ==
    calculateDistance(OfficeLat, OfficeLon, lat, lon) <= MAX_DISTANCE

movementPossible_strict(distance, possibleDistance) ==
    RatLess(<<distance, 1>>, possibleDistance)

\* distance <= possibleDistance
movementPossible(distance, possibleDistance) ==
    RatLeq(<<distance, 1>>, possibleDistance)

checkLocationConsistency(location) ==
    IF Len(recentLocations) > 0
    THEN LET lastLocation == recentLocations[Len(recentLocations)]
             distance == calculateDistance(lastLocation.latitude,
                                           lastLocation.longitude,
                                           location.latitude,
                                           location.longitude)
             timeDiff == Rat(location.timestamp - lastLocation.timestamp, 1000)
             possibleDistance == Rat(maxSpeed * timeDiff[1], timeDiff[2])
         IN  [passed |-> movementPossible(distance, possibleDistance),
              distance |-> distance,
              timeDiff |-> timeDiff,
              maxPossibleDistance |-> possibleDistance]
    ELSE [passed |-> TRUE, reason |-> "No previous locations"]

\* the speeds array built by the loop over consecutive samples, from index i
RECURSIVE Speeds(_, _)
Speeds(locs, i) ==
    IF i > Len(locs) THEN <<>>
    ELSE LET loc1 == locs[i - 1]
             loc2 == locs[i]
             distance == calculateDistance(loc1.latitude, loc1.longitude,
                                           loc2.latitude, loc2.longitude)
             timeDiffMs == loc2.timestamp - loc1.timestamp
         IN  (IF timeDiffMs > 0 THEN <<Rat(distance * 1000, timeDiffMs)>>
                                ELSE <<>>) \o Speeds(locs, i + 1)

speedChangeSmall_inclusive(speedChange) ==
    RatLeq(speedChange, <<maxSpeedChange, 1>>)

\* speedChange < 20
speedChangeSmall(speedChange) ==
    RatLess(speedChange, <<maxSpeedChange, 1>>)

checkSpeedAnomaly(location) ==
    LET speeds == IF Len(recentLocations) >= 2
                  THEN Speeds(recentLocations, 2) ELSE <<>>
    IN  IF Len(speeds) > 0
        THEN LET total == RatSum(speeds)
                 avgSpeed == Rat(total[1], total[2] * Len(speeds))
                 lastSpeed == speeds[Len(speeds)]
                 speedChange == RatAbs(RatSub(lastSpeed, avgSpeed))
             IN  [passed |-> speedChangeSmall(speedChange),
                  avgSpeed |-> avgSpeed,
                  lastSpeed |-> lastSpeed,
                  speedChange |-> speedChange]
        ELSE [passed |-> TRUE, reason |-> "Insufficient data"]

checkAltitudeAnomaly(location) ==
    IF ~Falsy(location.altitude)
    THEN [passed |-> location.altitude >= minAltitude
                     /\ location.altitude <= maxAltitude,
          altitude |-> location.altitude,
          minAltitude |-> minAltitude,
          maxAltitude |-> maxAltitude]
    ELSE [passed |-> TRUE, reason |-> "No altitude data"]

\* the three anti-spoofing checks, in the order the code runs them
spoofingChecksOf(location) ==
    << checkLocationConsistency(location),
       checkSpeedAnomaly(location),
       checkAltitudeAnomaly(location) >>

anyCheckPassed(spoofingChecks) ==
    \E i \in 1..Len(spoofingChecks) : spoofingChecks[i].passed

\* spoofingChecks.every(check => check.passed)
allChecksPassed(spoofingChecks) ==
    \A i \in 1..Len(spoofingChecks) : spoofingChecks[i].passed

\* the result object for a fix that is valid and in range
gpsResult(f) ==
    [verified |-> allChecksPassed(spoofingChecksOf(f)),
     location |-> [latitude |-> f.latitude,
                   longitude |-> f.longitude,
                   accuracy |-> f.accuracy,
                   timestamp |-> f.timestamp],
     metadata |-> [accuracy |-> f.accuracy,
                   spoofingChecks |-> spoofingChecksOf(f),
                   officeDistance |-> Absent]]

verifyGPSLocation_noRange(f, rangeThrows) ==
    IF f.kind = "throw"
    THEN [verified |-> FALSE, reason |-> "location error"]
    ELSE IF f.kind = "null" \/ Falsy(f.latitude) \/ Falsy(f.longitude)
    THEN [verified |-> FALSE, reason |-> "invalid location"]
    ELSE IF rangeThrows
    THEN [verified |-> FALSE, reason |-> "location error"]
    ELSE gpsResult(f)

\* f: outcome of getCurrentLocation; rangeThrows: isInOfficeRange fails
verifyGPSLocation(f, rangeThrows) ==
    IF f.kind = "throw"
    THEN [verified |-> FALSE, reason |-> "location error"]
    ELSE IF f.kind = "null" \/ Falsy(f.latitude) \/ Falsy(f.longitude)
    THEN [verified |-> FALSE, reason |-> "invalid location"]
    ELSE IF rangeThrows
    THEN [verified |-> FALSE, reason |-> "location error"]
    ELSE IF ~isInOfficeRange(f.latitude, f.longitude)
    THEN [verified |-> FALSE, reason |-> "out of range"]
    ELSE gpsResult(f)

Entry(call, outcome) == [call |-> call, outcome |-> outcome]

gpsCalls_eager(f, rangeThrows) ==
    IF f.kind = "throw"
    THEN << Entry("getCurrentLocation", "throw") >>
    ELSE IF f.kind = "null" \/ Falsy(f.latitude) \/ Falsy(f.longitude)
    THEN << Entry("getCurrentLocation", "ok") >>
    ELSE << Entry("getCurrentLocation", "ok"),
            Entry("getRecentLocations", "ok"),
            Entry("getRecentLocations", "ok"),
            Entry("isInOfficeRange", IF rangeThrows THEN "throw" ELSE "ok") >>

\* the collaborator calls verifyGPSLocation makes, in order
gpsCalls(f, rangeThrows) ==
    IF f.kind = "throw"
    THEN << Entry("getCurrentLocation", "throw") >>
    ELSE IF f.kind = "null" \/ Falsy(f.latitude) \/ Falsy(f.longitude)
    THEN << Entry("getCurrentLocation", "ok") >>
    ELSE IF rangeThrows
    THEN << Entry("getCurrentLocation", "ok"),
            Entry("isInOfficeRange", "throw") >>
    ELSE IF ~isInOfficeRange(f.latitude, f.longitude)
    THEN << Entry("getCurrentLocation", "ok"), Entry("isInOfficeRange", "ok") >>
    ELSE << Entry("getCurrentLocation", "ok"), Entry("isInOfficeRange", "ok"),
            Entry("getRecentLocations", "ok"),
            Entry("getRecentLocations", "ok") >>

getWorkStartTime ==
    IF Has(settings, "workStartTime")
    THEN settings["workStartTime"][1] * 60 + settings["workStartTime"][2]
    ELSE 8 * 60

getWorkEndTime ==
    IF Has(settings, "workEndTime")
    THEN settings["workEndTime"][1] * 60 + settings["workEndTime"][2]
    ELSE 17 * 60

checkInVerified_strict(currentTime, workStart) ==
    Abs(currentTime - workStart) < checkInTolerance

\* check-in should be around work start time (+/- 2 hours)
checkInVerified(currentTime, workStart) ==
    Abs(currentTime - workStart) <= checkInTolerance

checkOutVerified_afterStart(currentTime, workStart) ==
    currentTime > workStart /\ currentTime <= workStart + maxCheckOutSpan

\* check-out should be after work start and at most 10 hours later
checkOutVerified(currentTime, workStart) ==
    currentTime >= workStart /\ currentTime <= workStart + maxCheckOutSpan

verifyAttendanceTime(t) ==
    LET currentTime == MinuteOfDay(now)
        workStart == getWorkStartTime
        workEnd == getWorkEndTime
        verified ==
            IF t = "check_in"
            THEN checkInVerified(currentTime, workStart)
            ELSE IF t = "check_out"
            THEN checkOutVerified(currentTime, workStart)
            ELSE FALSE
    IN  [verified |-> verified,
         reason |-> IF verified THEN "" ELSE "outside time window",
         metadata |-> [currentTime |-> currentTime, workStart |-> workStart,
                       workEnd |-> workEnd, type |-> t]]

RECURSIVE SquareDiffs(_, _, _)
SquareDiffs(numbers, total, n) ==
    IF numbers = <<>> THEN 0
    ELSE (n * numbers[1] - total) * (n * numbers[1] - total)
         + SquareDiffs(Tail(numbers), total, n)

\* the square of calculateStandardDeviation(numbers): the mean of the
\* squared differences to the mean, as an exact fraction
calculateStandardDeviation2(numbers) ==
    LET n == Len(numbers)
    IN  Rat(SquareDiffs(numbers, SumSeq(numbers), n), n * n * n)

RECURSIVE CheckInTimes(_)
CheckInTimes(records) ==
    IF records = <<>> THEN <<>>
    ELSE (IF records[1].type = "check_in" /\ ~Falsy(records[1].timestamp)
          THEN << MinuteOfDay(records[1].timestamp) >> ELSE <<>>)
         \o CheckInTimes(Tail(records))

withinTwoStdDev_strict(timeDiff, stdDev2) ==
    RatLess(Rat(timeDiff[1] * timeDiff[1], timeDiff[2] * timeDiff[2]),
            Rat(4 * stdDev2[1], stdDev2[2]))

\* timeDiff <= stdDev * 2, both sides squared (both are >= 0)
withinTwoStdDev(timeDiff, stdDev2) ==
    RatLeq(Rat(timeDiff[1] * timeDiff[1], timeDiff[2] * timeDiff[2]),
           Rat(4 * stdDev2[1], stdDev2[2]))

verifyAttendancePattern(t) ==
    IF Len(userAttendance) = 0
    THEN [verified |-> TRUE, reason |-> "No history available"]
    ELSE LET checkInTimes == CheckInTimes(userAttendance)
         IN  IF Len(checkInTimes) = 0
             THEN [verified |-> TRUE, reason |-> "No check-in history"]
             ELSE LET avgCheckIn == Rat(SumSeq(checkInTimes), Len(checkInTimes))
                      stdDev2 == calculateStandardDeviation2(checkInTimes)
                      currentTime == MinuteOfDay(now)
                      timeDiff == RatAbs(RatSub(<<currentTime, 1>>, avgCheckIn))
                      verified == withinTwoStdDev(timeDiff, stdDev2)
                  IN  [verified |-> verified,
                       reason |-> IF verified THEN "" ELSE "unusual pattern",
                       metadata |-> [avgCheckIn |-> avgCheckIn,
                                     currentTime |-> currentTime,
                                     timeDiff |-> timeDiff,
                                     stdDev2 |-> stdDev2,
                                     historyCount |-> Len(checkInTimes)]]

\* ------------------------------------------------------------------- Init
\* the triggers of syncOfflineData
Triggers == {"online", "timer", "visibility"}

\* the 'sync-attendance' events the service worker may be handling
SwRuns == {1, 2}

NoSyncCall == [pc |-> "idle"]
NoSwRun == [pc |-> "idle"]

\* nothing runs in the background
NoBackground ==
    /\ isSyncing = FALSE
    /\ syncRun = [tr \in Triggers |-> NoSyncCall]
    /\ attendanceQueue = <<>>
    /\ swRun = [r \in SwRuns |-> NoSwRun]
    /\ posted = {}
    /\ queued = {}
    /\ clientMessages = <<>>

Init ==
    /\ antiSpoofing \in BOOLEAN
    /\ now \in Clocks
    /\ \E offs \in SeqsUpTo(RecentOffsets, MaxRecent) :
           recentLocations = RecentWindow(offs, now)
    /\ userAttendance \in SeqsUpTo(HistoryRecords, MaxHistory)
    /\ settings \in WorkStartSettings
    /\ pc = "idle"
    /\ type = "check_in"
    /\ verification = [verified |-> FALSE, method |-> "manual",
                       location |-> NoLocation, timestamp |-> now,
                       metadata |-> EmptyMeta]
    /\ fix = [kind |-> "unread"]
    /\ gpsVerification = NotRun
    /\ timeVerification = NotRun
    /\ patternVerification = NotRun
    /\ log = <<>>
    /\ currentUser = [id |-> 1]
    /\ attendanceRecords = <<>>
    /\ userPermissions = {}
    /\ recordPc = "none"
    /\ loading = "never"
    /\ NoBackground
    /\ probe = NoProbe
    /\ prev = NoCall

\* ---------------------------------------------------------------- actions
staleVerdict(old) == old

\* the verdict object a call starts from; old is what the last call left
freshVerdict(old) ==
    [verified |-> FALSE, method |-> "manual", location |-> NoLocation,
     timestamp |-> now, metadata |-> EmptyMeta]

\* entry of verifyAttendance(type, options): the verdict object is created
Begin(t) ==
    /\ pc' = "gps"
    /\ type' = t
    /\ verification' = freshVerdict(verification)
    /\ fix' = [kind |-> "unread"]
    /\ gpsVerification' = NotRun
    /\ timeVerification' = NotRun
    /\ patternVerification' = NotRun
    /\ log' = <<>>

\* verifyAttendance(type, options) is called
Call(t) ==
    /\ pc \in {"idle", "returned", "threw"}
    /\ Begin(t)
    /\ UNCHANGED <<env, stores, aux>>

afterGps_notVerified(v, g) ==
    IF g.verified
    THEN [v EXCEPT !.method = "gps",
                   !.location = g.location,
                   !.metadata = Put(v.metadata, "gps", g.metadata)]
    ELSE v

\* the verdict after step 1, given the result g of verifyGPSLocation
afterGps(v, g) ==
    IF g.verified
    THEN [v EXCEPT !.verified = TRUE,
                   !.method = "gps",
                   !.location = g.location,
                   !.metadata = Put(v.metadata, "gps", g.metadata)]
    ELSE v

GpsVerification_tracks ==
    /\ pc = "gps"
    /\ antiSpoofing
    /\ \E f \in Fixes(now), rangeThrows \in BOOLEAN :
          /\ fix' = f
          /\ gpsVerification' = verifyGPSLocation(f, rangeThrows)
          /\ log' = log \o gpsCalls(f, rangeThrows)
    /\ verification' = afterGps(verification, gpsVerification')
    /\ recentLocations' =
          IF gpsVerification'.verified /\ Len(recentLocations) < MaxRecent
          THEN Append(recentLocations, gpsVerification'.location)
          ELSE recentLocations
    /\ pc' = "time"
    /\ UNCHANGED <<antiSpoofing, userAttendance, settings, now, stores, aux,
                   type, timeVerification, patternVerification>>

\* 1. GPS verification
GpsVerification ==
    /\ pc = "gps"
    /\ antiSpoofing
    /\ \E f \in Fixes(now), rangeThrows \in BOOLEAN :
          /\ fix' = f
          /\ gpsVerification' = verifyGPSLocation(f, rangeThrows)
          /\ log' = log \o gpsCalls(f, rangeThrows)
    /\ verification' = afterGps(verification, gpsVerification')
    /\ pc' = "time"
    /\ UNCHANGED <<env, stores, aux, type, timeVerification, patternVerification>>

GpsSkipped_reads ==
    /\ pc = "gps"
    /\ ~antiSpoofing
    /\ \E f \in Fixes(now), rangeThrows \in BOOLEAN :
          /\ fix' = f
          /\ gpsVerification' = verifyGPSLocation(f, rangeThrows)
          /\ log' = log \o gpsCalls(f, rangeThrows)
    /\ verification' = afterGps(verification, gpsVerification')
    /\ pc' = "time"
    /\ UNCHANGED <<env, stores, aux, type, timeVerification, patternVerification>>

\* 1. skipped: config.GPS.ANTI_SPOOFING is off
GpsSkipped ==
    /\ pc = "gps"
    /\ ~antiSpoofing
    /\ pc' = "time"
    /\ UNCHANGED <<env, stores, aux, type, verification, fix, gpsVerification,
                   timeVerification, patternVerification, log>>

\* c.metadata of a result object; undefined when the result has none
MetadataOf(c) == IF "metadata" \in DOMAIN c THEN c.metadata ELSE Absent

\* the verdict after a time or pattern check c stored under key k
afterCheck(v, c, k) ==
    IF c.verified
    THEN [v EXCEPT !.verified = v.verified /\ c.verified,
                   !.metadata = Put(v.metadata, k, MetadataOf(c))]
    ELSE v

\* 2. time verification
TimeVerification ==
    /\ pc = "time"
    /\ timeVerification' = verifyAttendanceTime(type)
    /\ verification' = afterCheck(verification, timeVerification', "time")
    /\ pc' = "pattern"
    /\ UNCHANGED <<env, stores, aux, type, fix, gpsVerification, patternVerification, log>>

\* 3. pattern verification
PatternVerification ==
    /\ pc = "pattern"
    /\ patternVerification' = verifyAttendancePattern(type)
    /\ log' = Append(log, Entry("getUserAttendance", "ok"))
    /\ verification' = afterCheck(verification, patternVerification', "pattern")
    /\ pc' = "aggregate"
    /\ UNCHANGED <<env, stores, aux, type, fix, gpsVerification, timeVerification>>

\* 3. getUserAttendance throws: control goes to the catch block
PatternThrows ==
    /\ pc = "pattern"
    /\ log' = Append(log, Entry("getUserAttendance", "throw"))
    /\ pc' = "catch"
    /\ UNCHANGED <<env, stores, aux, type, verification, fix, gpsVerification,
                   timeVerification, patternVerification>>

\* the verdict of the branch where every verification passed
afterAllPassed(v) ==
    [v EXCEPT !.metadata = Put(v.metadata, "verificationLevel", "high")]

afterManual_noLevel(v, answer) ==
    [v EXCEPT !.verified = answer, !.method = "manual"]

\* the verdict of the else branch, once the dialog is answered
afterManual(v, answer) ==
    [v EXCEPT !.verified = answer,
              !.method = "manual",
              !.metadata = Put(v.metadata, "verificationLevel", "low")]

afterFallback_keepsMethod(v, answer) ==
    [v EXCEPT !.verified = answer]

\* the verdict of the catch block, once the dialog is answered
afterFallback(v, answer) ==
    [v EXCEPT !.verified = answer, !.method = "manual_fallback"]

\* verification.level of the record createAttendanceRecord builds
recordLevel(v) ==
    IF Has(v.metadata, "verificationLevel")
    THEN v.metadata["verificationLevel"]
    ELSE "unknown"

\* all verifications passed
AllPassed ==
    /\ pc = "aggregate"
    /\ verification.verified
    /\ verification' = afterAllPassed(verification)
    /\ pc' = "returned"
    /\ UNCHANGED <<env, stores, aux, type, fix, gpsVerification, timeVerification,
                   patternVerification, log>>

\* fallback to manual verification: the dialog is shown, or showing it throws
ManualRequest ==
    /\ pc = "aggregate"
    /\ ~verification.verified
    /\ \E shown \in BOOLEAN :
          IF shown
          THEN /\ log' = Append(log, Entry("manualVerification", "pending"))
               /\ pc' = "manual"
          ELSE /\ log' = Append(log, Entry("manualVerification", "throw"))
               /\ pc' = "catch"
    /\ UNCHANGED <<env, stores, aux, type, verification, fix, gpsVerification,
                   timeVerification, patternVerification>>

\* the user answers the dialog opened by the else branch
ManualAnswer(answer) ==
    /\ pc = "manual"
    /\ log' = [log EXCEPT ![Len(log)].outcome =
                              IF answer THEN "confirm" ELSE "cancel"]
    /\ verification' = afterManual(verification, answer)
    /\ pc' = "returned"
    /\ UNCHANGED <<env, stores, aux, type, fix, gpsVerification, timeVerification,
                   patternVerification>>

\* catch block: manual verification again; if it throws the error escapes
FallbackRequest ==
    /\ pc = "catch"
    /\ \E shown \in BOOLEAN :
          IF shown
          THEN /\ log' = Append(log, Entry("manualVerification", "pending"))
               /\ pc' = "fallback"
          ELSE /\ log' = Append(log, Entry("manualVerification", "throw"))
               /\ pc' = "threw"
    /\ UNCHANGED <<env, stores, aux, type, verification, fix, gpsVerification,
                   timeVerification, patternVerification>>

FallbackAnswer_reopens(answer) ==
    /\ pc = "fallback"
    /\ log' = [log EXCEPT ![Len(log)].outcome =
                              IF answer THEN "confirm" ELSE "cancel"]
    /\ verification' = afterFallback(verification, answer)
    /\ pc' = "fallback"
    /\ UNCHANGED <<env, stores, aux, type, fix, gpsVerification, timeVerification,
                   patternVerification>>

\* the user answers the dialog opened by the catch block
FallbackAnswer(answer) ==
    /\ pc = "fallback"
    /\ log' = [log EXCEPT ![Len(log)].outcome =
                              IF answer THEN "confirm" ELSE "cancel"]
    /\ verification' = afterFallback(verification, answer)
    /\ pc' = "returned"
    /\ UNCHANGED <<env, stores, aux, type, fix, gpsVerification, timeVerification,
                   patternVerification>>

Next ==
    \/ \E t \in Types : Call(t)
    \/ GpsVerification
    \/ GpsSkipped
    \/ TimeVerification
    \/ PatternVerification
    \/ PatternThrows
    \/ AllPassed
    \/ ManualRequest
    \/ \E answer \in BOOLEAN : ManualAnswer(answer)
    \/ FallbackRequest
    \/ \E answer \in BOOLEAN : FallbackAnswer(answer)

Spec == Init /\ [][Next]_vars

\* ------------------------------------------------- observations of a call
Returned == pc = "returned"
Escaped == pc = "threw"

Made(call, outcomes) ==
    \E i \in 1..Len(log) : log[i].call = call /\ log[i].outcome \in outcomes

ManualRequested ==
    Made("manualVerification", {"pending", "confirm", "cancel", "throw"})
ManualThrew == Made("manualVerification", {"throw"})
HistoryThrew == Made("getUserAttendance", {"throw"})
AnyThrow == \E i \in 1..Len(log) : log[i].outcome = "throw"

\* the verdict's verified is the answer the user gave to the last dialog
VerifiedIsManualAnswer ==
    /\ Len(log) > 0
    /\ log[Len(log)].call = "manualVerification"
    /\ log[Len(log)].outcome \in {"confirm", "cancel"}
    /\ verification.verified = (log[Len(log)].outcome = "confirm")

GpsHigh ==
    /\ verification.method = "gps"
    /\ recordLevel(verification) = "high"

\* the fix of this call has both coordinates
FixValid ==
    /\ fix.kind = "sample"
    /\ ~Falsy(fix.latitude)
    /\ ~Falsy(fix.longitude)

OfficeDistance == Abs(fix.latitude - OfficeLat)

RangeAccepted ==
    /\ FixValid
    /\ Made("isInOfficeRange", {"ok"})
    /\ OfficeDistance <= MAX_DISTANCE

OutOfRange == FixValid /\ OfficeDistance > MAX_DISTANCE

TimeRan == pc \notin {"idle", "gps", "time"}
PatternRan == Made("getUserAttendance", {"ok"})

\* ----------------------------------------------------------------- claims

\* C1: a returned verdict has method 'gps' only if the fix had latitude and
\* longitude, the office-range check accepted it and the consistency, speed
\* and altitude checks all passed; when the GPS step failed, the returned
\* verdict is never 'gps' nor level 'high'.
C1_GpsOnlyIfAllGpsChecks ==
    Returned =>
        /\ verification.method = "gps" =>
              /\ RangeAccepted
              /\ checkLocationConsistency(fix).passed
              /\ checkSpeedAnomaly(fix).passed
              /\ checkAltitudeAnomaly(fix).passed
        /\ ~gpsVerification.verified =>
              /\ verification.method # "gps"
              /\ recordLevel(verification) # "high"

C1_Witness ==
    /\ Returned
    /\ verification.method = "gps"
    /\ Len(recentLocations) = MaxRecent
    /\ fix.altitude = minAltitude

\* C2: when the time-window check failed, the returned verdict is never
\* method 'gps' with level 'high'; manual confirmation was requested.
C2_TimeVetoes ==
    (Returned /\ ~timeVerification.verified) =>
        (~GpsHigh /\ ManualRequested)

\* C3: when the pattern check failed, the returned verdict is never method
\* 'gps' with level 'high'; manual confirmation was requested.
C3_PatternVetoes ==
    (Returned /\ PatternRan /\ ~patternVerification.verified) =>
        (~GpsHigh /\ ManualRequested)

\* C4 (as stated): a fix farther than the maximum distance from the office
\* gives verified = false, whatever the manual confirmation answers.
C4_OutOfRangeNeverVerified ==
    (Returned /\ OutOfRange) => ~verification.verified

\* C4 (amended): a fix farther than the maximum distance never gives method
\* 'gps' nor level 'high'; manual confirmation is requested and verified is
\* the answer it gave.
C4_OutOfRangeIsManual ==
    (Returned /\ OutOfRange) =>
        /\ verification.method \in {"manual", "manual_fallback"}
        /\ recordLevel(verification) # "high"
        /\ VerifiedIsManualAnswer

C4_Witness ==
    /\ Returned
    /\ OutOfRange
    /\ timeVerification.verified
    /\ patternVerification.verified
    /\ verification.verified

\* C5: valid fix in range, the three spoofing checks pass, the time is in
\* the window and there is no attendance history: the verdict is verified,
\* method 'gps', level 'high', with a location, and no manual confirmation
\* was requested.
C5_AllPassGivesGps ==
    ( /\ Returned
      /\ RangeAccepted
      /\ checkLocationConsistency(fix).passed
      /\ checkSpeedAnomaly(fix).passed
      /\ checkAltitudeAnomaly(fix).passed
      /\ timeVerification.verified
      /\ PatternRan
      /\ userAttendance = <<>> ) =>
        /\ verification.verified
        /\ verification.method = "gps"
        /\ recordLevel(verification) = "high"
        /\ verification.location # NoLocation
        /\ ~ManualRequested

C5_Witness ==
    /\ Returned
    /\ RangeAccepted
    /\ recentLocations = <<>>
    /\ fix.altitude = Absent
    /\ timeVerification.verified
    /\ PatternRan
    /\ userAttendance = <<>>
    /\ verification.method = "gps"

\* C6: when the manual-confirmation step throws, verifyAttendance still
\* returns a verdict with method 'manual_fallback'; no exception escapes.
C6_ManualThrowGivesFallback ==
    ManualThrew =>
        /\ ~Escaped
        /\ Returned => verification.method = "manual_fallback"

\* C7: when getCurrentLocation throws, verifyAttendance does not throw; the
\* GPS step failed, manual confirmation is requested and the verdict has
\* method manual or manual_fallback, no location, and verified equal to the
\* manual answer.
C7_LocationThrowIsManual ==
    fix.kind = "throw" =>
        /\ ~gpsVerification.verified
        /\ ~Escaped
        /\ Returned =>
              /\ ManualRequested
              /\ verification.method \in {"manual", "manual_fallback"}
              /\ verification.location = NoLocation
              /\ VerifiedIsManualAnswer

\* C8: when getUserAttendance throws, the error is caught: manual
\* confirmation is requested, and a returned verdict has method
\* 'manual_fallback' and verified equal to the manual answer, also when
\* the GPS step had set method 'gps'.
C8_HistoryThrowIsFallback ==
    HistoryThrew =>
        /\ pc \in {"catch", "fallback", "returned", "threw"}
        /\ pc \in {"fallback", "returned", "threw"} => ManualRequested
        /\ Escaped => ManualThrew
        /\ Returned =>
              /\ verification.method = "manual_fallback"
              /\ VerifiedIsManualAnswer

C8_Witness ==
    /\ Returned
    /\ HistoryThrew
    /\ gpsVerification.verified
    /\ verification.verified

\* C9: when the automated checks do not all pass and the manual step
\* answers normally, the verdict has method 'manual', level 'low' and
\* verified equal to the manual answer.
C9_FailedChecksGiveManual ==
    ( /\ Returned
      /\ ~AnyThrow
      /\ ~( /\ gpsVerification.verified
            /\ timeVerification.verified
            /\ patternVerification.verified ) ) =>
        /\ verification.method = "manual"
        /\ recordLevel(verification) = "low"
        /\ VerifiedIsManualAnswer

\* C10 (as stated): every returned verdict carries
\* metadata.verificationLevel, 'high' or 'low'.
C10_LevelAlwaysSet ==
    Returned =>
        /\ Has(verification.metadata, "verificationLevel")
        /\ verification.metadata["verificationLevel"] \in {"high", "low"}

\* C10 (amended): a verdict with method 'gps' carries verificationLevel
\* 'high', one with method 'manual' carries 'low', and one with method
\* 'manual_fallback' carries none (its record's level is 'unknown').
C10_LevelByMethod ==
    Returned =>
        /\ verification.method \in {"gps", "manual", "manual_fallback"}
        /\ verification.method = "gps" =>
              ( /\ Has(verification.metadata, "verificationLevel")
                /\ verification.metadata["verificationLevel"] = "high" )
        /\ verification.method = "manual" =>
              ( /\ Has(verification.metadata, "verificationLevel")
                /\ verification.metadata["verificationLevel"] = "low" )
        /\ verification.method = "manual_fallback" =>
              ( /\ ~Has(verification.metadata, "verificationLevel")
                /\ recordLevel(verification) = "unknown" )

C10_Witness ==
    /\ Returned
    /\ verification.method = "manual_fallback"
    /\ ~Has(verification.metadata, "verificationLevel")

\* C11: whenever the GPS step, the time-window check or the pattern check
\* failed, the returned verdict's metadata has an entry for that check.
C11_FailedCheckRecorded ==
    Returned =>
        /\ (fix.kind # "unread" /\ ~gpsVerification.verified) =>
              Has(verification.metadata, "gps")
        /\ ~timeVerification.verified => Has(verification.metadata, "time")
        /\ (PatternRan /\ ~patternVerification.verified) =>
              Has(verification.metadata, "pattern")

\* C19: no step of a verifyAttendance call changes the recent-location
\* window, the attendance history, the stored settings or the current
\* user, and none persists an attendance record.
C19_NoSideEffects ==
    [][UNCHANGED <<recentLocations, userAttendance, settings, currentUser,
                   attendanceRecords>>]_vars

C19_Witness ==
    /\ Returned
    /\ verification.method = "gps"
    /\ Made("getRecentLocations", {"ok"})
    /\ Len(recentLocations) = 1
    /\ Len(userAttendance) = 1
    /\ attendanceRecords = <<>>

\* C20: the recent-location window is read only after getCurrentLocation
\* returned a fix with both coordinates and the range check accepted it;
\* with a missing, invalid or out-of-range fix the GPS step returns not
\* verified with a reason and the window is never read.
C20_WindowReadAfterRange ==
    /\ \A i \in 1..Len(log) :
          log[i].call = "getRecentLocations" =>
              /\ FixValid
              /\ OfficeDistance <= MAX_DISTANCE
              /\ \E j \in 1..Len(log), k \in 1..Len(log) :
                    /\ j < k
                    /\ k < i
                    /\ log[j] = Entry("getCurrentLocation", "ok")
                    /\ log[k] = Entry("isInOfficeRange", "ok")
    /\ (fix.kind # "unread" /\ ~(FixValid /\ OfficeDistance <= MAX_DISTANCE)) =>
          /\ ~gpsVerification.verified
          /\ "reason" \in DOMAIN gpsVerification
          /\ ~Made("getRecentLocations", {"ok", "throw"})

C20_Witness ==
    /\ pc = "time"
    /\ OutOfRange
    /\ Made("isInOfficeRange", {"ok"})
    /\ gpsVerification.reason = "out of range"
    /\ ~Made("getRecentLocations", {"ok", "throw"})

\* ------------------------------------------- the spoofing checks on their own
\* everything but the inputs of the check under study, as after construction
IdleWith(spoof, window, history, stored, clock) ==
    /\ antiSpoofing = spoof
    /\ recentLocations = window
    /\ userAttendance = history
    /\ settings = stored
    /\ now = clock
    /\ pc = "idle"
    /\ type = "check_in"
    /\ verification = [verified |-> FALSE, method |-> "manual",
                       location |-> NoLocation, timestamp |-> clock,
                       metadata |-> EmptyMeta]
    /\ fix = [kind |-> "unread"]
    /\ gpsVerification = NotRun
    /\ timeVerification = NotRun
    /\ patternVerification = NotRun
    /\ log = <<>>
    /\ currentUser = [id |-> 1]
    /\ attendanceRecords = <<>>
    /\ userPermissions = {}
    /\ recordPc = "none"
    /\ loading = "never"
    /\ NoBackground
    /\ probe = NoProbe
    /\ prev = NoCall

ProbeBase == Today + 480 * 60000

\* a window sample: <<metres north of the office, ms after its predecessor>>
ProbeSteps == {0, 399, 400} \X {0, 10000}

ProbeWindow(steps) ==
    [i \in 1..Len(steps) |->
        [latitude |-> OfficeLat + steps[i][1], longitude |-> OfficeLon,
         accuracy |-> 10, altitude |-> Absent,
         timestamp |-> ProbeBase + SumSeq([j \in 1..i |-> steps[j][2]])]]

ProbeLocations ==
    { Sample(OfficeLat + d, OfficeLon, Absent, ProbeBase + t) :
          d \in {0, 500, 501}, t \in {0, 2000, 10000, 10020, 30000} }

ProbeAltitudes == {Absent, 0, 799, 800, 1400, 2000, 2001}

InitSpoofing ==
    \E steps \in SeqsUpTo(ProbeSteps, MaxRecent) :
        IdleWith(TRUE, ProbeWindow(steps), <<>>, EmptyMeta, ProbeBase + 30000)

Probed(fn, input, result) ==
    /\ pc = "idle"
    /\ probe' = [fn |-> fn, input |-> input, result |-> result]
    /\ pc' = "probed"
    /\ UNCHANGED <<env, stores, type, verification, fix, gpsVerification,
                   timeVerification, patternVerification, log, prev>>

ProbeConsistency ==
    \E location \in ProbeLocations :
        Probed("consistency", location, checkLocationConsistency(location))

ProbeSpeed ==
    \E location \in ProbeLocations :
        Probed("speed", location, checkSpeedAnomaly(location))

ProbeAltitude ==
    \E altitude \in ProbeAltitudes :
        LET location == Sample(OfficeLat, OfficeLon, altitude, ProbeBase)
        IN  Probed("altitude", location, checkAltitudeAnomaly(location))

NextSpoofing == ProbeConsistency \/ ProbeSpeed \/ ProbeAltitude

SpecSpoofing == InitSpoofing /\ [][NextSpoofing]_vars

\* C12: with no prior sample the consistency check passes; otherwise, with
\* dd the distance to the newest prior sample and dt the seconds elapsed
\* since it, the check passes iff dd <= 50 * dt (dd = 50 * dt passes).
C12_ConsistencyIffWithinSpeed ==
    probe.fn = "consistency" =>
        IF Len(recentLocations) = 0
        THEN probe.result.passed
        ELSE LET last == recentLocations[Len(recentLocations)]
                 dd == Abs(probe.input.latitude - last.latitude)
                 dtMs == probe.input.timestamp - last.timestamp
             IN  probe.result.passed <=> (dd * 1000 <= 50 * dtMs)

C12_Witness ==
    /\ probe.fn = "consistency"
    /\ Len(recentLocations) > 0
    /\ LET last == recentLocations[Len(recentLocations)]
       IN  /\ Abs(probe.input.latitude - last.latitude) = 501
           /\ probe.input.timestamp - last.timestamp = 10020
    /\ probe.result.passed

\* C13: a location with no altitude passes the altitude check; a location
\* whose altitude is present, whatever its value, passes iff
\* 800 <= altitude <= 2000.
C13_AltitudeIffInRange ==
    probe.fn = "altitude" =>
        IF probe.input.altitude = Absent
        THEN probe.result.passed
        ELSE probe.result.passed <=>
                 (800 <= probe.input.altitude /\ probe.input.altitude <= 2000)

\* speeds claimed for a window: one per pair of consecutive samples, as
\* <<metres * 1000, elapsed ms>>
IntervalSpeeds(w) ==
    [i \in 1..(Len(w) - 1) |->
        << Abs(w[i + 1].latitude - w[i].latitude) * 1000,
           w[i + 1].timestamp - w[i].timestamp >>]

\* |last - mean| < 20 for a non-empty sequence of <<numerator, denominator>>
LastNearMean(speeds) ==
    LET n == Len(speeds)
        asRat == [i \in 1..n |-> Rat(speeds[i][1], speeds[i][2])]
        total == RatSum(asRat)
        last == asRat[n]
        gap == RatAbs(RatSub(<<n * last[1], last[2]>>, total))
    IN  gap[1] < 20 * n * gap[2]

\* C17 (as stated): with fewer than 2 samples the speed check passes;
\* otherwise it passes iff |mostRecentSpeed - meanSpeed| < 20 over the
\* speeds distance / elapsed seconds of all consecutive samples (a pair with
\* no elapsed time has no finite speed, so the inequality cannot hold).
C17_SpeedAllIntervals ==
    probe.fn = "speed" =>
        IF Len(recentLocations) < 2
        THEN probe.result.passed
        ELSE LET speeds == IntervalSpeeds(recentLocations)
             IN  probe.result.passed <=>
                     /\ \A i \in 1..Len(speeds) : speeds[i][2] > 0
                     /\ LastNearMean(speeds)

\* C17 (amended): with fewer than 2 samples, or with no pair of consecutive
\* samples separated by a positive elapsed time, the speed check passes;
\* otherwise it passes iff |lastSpeed - meanSpeed| < 20, strictly, over the
\* speeds of the pairs with positive elapsed time.
C17_SpeedPositiveIntervals ==
    probe.fn = "speed" =>
        LET speeds == SelectSeq(IntervalSpeeds(recentLocations),
                                LAMBDA sp : sp[2] > 0)
        IN  IF Len(recentLocations) < 2 \/ Len(speeds) = 0
            THEN probe.result.passed
            ELSE probe.result.passed <=> LastNearMean(speeds)

C17_Witness ==
    /\ probe.fn = "speed"
    /\ Len(recentLocations) = 3
    /\ recentLocations[2].timestamp > recentLocations[1].timestamp
    /\ recentLocations[3].timestamp > recentLocations[2].timestamp
    /\ recentLocations[2].latitude = recentLocations[1].latitude
    /\ recentLocations[3].latitude = recentLocations[2].latitude + 400
    /\ ~probe.result.passed

\* ------------------------------------------------ the time check on its own
\* every minute of the day, 30 s into the minute
DayClocks == {Today + m * 60000 + 30000 : m \in 0..1439}

\* stored settings: none, "07:59", "00:30", "22:30"
ProbeSettings ==
    {EmptyMeta} \cup
    { [k \in {"workStartTime"} |-> hm] : hm \in {<<7, 59>>, <<0, 30>>, <<22, 30>>} }

InitTime ==
    \E stored \in ProbeSettings, clock \in DayClocks :
        IdleWith(TRUE, <<>>, <<>>, stored, clock)

ProbeTime ==
    \E t \in Types : Probed("time", t, verifyAttendanceTime(t))

NextTime == ProbeTime

SpecTime == InitTime /\ [][NextTime]_vars

\* minutes since local midnight of the clock
CurrentMinutes == (now - Today) \div 60000

\* the configured work start in minutes, 08:00 when none is stored
WorkStartMinutes ==
    IF "workStartTime" \in DOMAIN settings
    THEN 60 * settings["workStartTime"][1] + settings["workStartTime"][2]
    ELSE 480

\* C14: for type check_in the time check passes iff
\* |currentMinutes - workStartMinutes| <= 120 (workStart +/- 120 pass,
\* workStart +/- 121 fail).
C14_CheckInIffWithin120 ==
    (probe.fn = "time" /\ probe.input = "check_in") =>
        (probe.result.verified <=>
            /\ CurrentMinutes - WorkStartMinutes <= 120
            /\ WorkStartMinutes - CurrentMinutes <= 120)

C14_Witness ==
    /\ probe.fn = "time"
    /\ probe.input = "check_in"
    /\ CurrentMinutes = WorkStartMinutes + 120
    /\ probe.result.verified

\* C15: for type check_out the time check passes iff
\* workStartMinutes <= currentMinutes <= workStartMinutes + 600, both
\* bounds inclusive.
C15_CheckOutIffWithinSpan ==
    (probe.fn = "time" /\ probe.input = "check_out") =>
        (probe.result.verified <=>
            /\ WorkStartMinutes <= CurrentMinutes
            /\ CurrentMinutes <= WorkStartMinutes + 600)

C15_Witness ==
    /\ probe.fn = "time"
    /\ probe.input = "check_out"
    /\ CurrentMinutes = WorkStartMinutes
    /\ probe.result.verified

\* --------------------------------------------- the pattern check on its own
PatternRecords ==
    { [type |-> "check_in",  timestamp |-> 9 * 86400000 + 480 * 60000],
      [type |-> "check_in",  timestamp |-> 8 * 86400000 + 480 * 60000 + 45000],
      [type |-> "check_in",  timestamp |-> 7 * 86400000 + 482 * 60000],
      [type |-> "check_in",  timestamp |-> 6 * 86400000 + 600 * 60000],
      [type |-> "check_out", timestamp |-> 9 * 86400000 + 1080 * 60000],
      [type |-> "check_in",  timestamp |-> 0] }

\* 05:00 to 13:00, every minute
PatternClocks == {Today + m * 60000 + 30000 : m \in 300..780}

InitPattern ==
    \E history \in SeqsUpTo(PatternRecords, MaxHistory), clock \in PatternClocks :
        IdleWith(TRUE, <<>>, history, EmptyMeta, clock)

ProbePattern ==
    \E t \in Types : Probed("pattern", t, verifyAttendancePattern(t))

NextPattern == ProbePattern

SpecPattern == InitPattern /\ [][NextPattern]_vars

\* minute of day of each record of a sequence of records
MinutesOf(records) ==
    [i \in 1..Len(records) |-> (records[i].timestamp % 86400000) \div 60000]

RECURSIVE SumSquares(_)
SumSquares(s) == IF s = <<>> THEN 0 ELSE s[1] * s[1] + SumSquares(Tail(s))

\* |cur - mean| <= 2 * stddev for the mean and population standard deviation
\* of a non-empty sequence of minutes, cleared of the division and the root:
\* (n * cur - S)^2 <= 4 * (n * sum of squares - S^2)
WithinTwoSigma(cur, minutes) ==
    LET n == Len(minutes)
        S == SumSeq(minutes)
    IN  (n * cur - S) * (n * cur - S) <= 4 * (n * SumSquares(minutes) - S * S)

\* C16 (as stated): with no attendance record the pattern check passes;
\* otherwise it passes iff |currentMinutes - mean| <= 2 * stddev over the
\* minute-of-day of the historical check-in records (with no check-in record
\* there is no mean, so the inequality cannot hold).
C16_PatternAnyHistory ==
    probe.fn = "pattern" =>
        IF Len(userAttendance) = 0
        THEN probe.result.verified
        ELSE LET checkIns == SelectSeq(userAttendance,
                                       LAMBDA a : /\ a.type = "check_in"
                                                  /\ a.timestamp # 0)
             IN  probe.result.verified <=>
                     /\ Len(checkIns) > 0
                     /\ WithinTwoSigma(CurrentMinutes, MinutesOf(checkIns))

\* C16 (amended): with no check-in record carrying a timestamp in the
\* history the pattern check passes; otherwise it passes iff
\* |currentMinutes - mean| <= 2 * stddev over the minute-of-day of those
\* check-in records.
C16_PatternCheckInHistory ==
    probe.fn = "pattern" =>
        LET checkIns == SelectSeq(userAttendance,
                                  LAMBDA a : a.type = "check_in" /\ a.timestamp # 0)
        IN  IF Len(checkIns) = 0
            THEN probe.result.verified
            ELSE probe.result.verified <=>
                     WithinTwoSigma(CurrentMinutes, MinutesOf(checkIns))

\* every historical check-in at 08:00, the current time one minute off
C16_Witness ==
    /\ probe.fn = "pattern"
    /\ Len(userAttendance) = 2
    /\ \A i \in 1..2 : /\ userAttendance[i].type = "check_in"
                        /\ MinutesOf(userAttendance)[i] = 480
    /\ userAttendance[1] # userAttendance[2]
    /\ CurrentMinutes = 481
    /\ ~probe.result.verified

\* ------------------------------------------- two calls on the same inputs
TwiceClocks == {Today + m * 60000 + 30000 : m \in {359, 480}}

\* the tracker's window: empty, or MaxRecent samples at the office
TwiceWindows == {<<>>, [i \in 1..MaxRecent |-> 0]}

\* the history: empty, or MaxHistory check-ins at 08:00 and 10:00
TwiceHistories ==
    {<<>>,
     [i \in 1..MaxHistory |->
         [type |-> "check_in",
          timestamp |-> (10 - i) * 86400000 + (480 + 120 * (i % 2)) * 60000]]}

InitTwice ==
    \E spoof \in BOOLEAN, clock \in TwiceClocks,
       offs \in TwiceWindows, history \in TwiceHistories :
        IdleWith(spoof, RecentWindow(offs, clock), history, EmptyMeta, clock)

\* the first verifyAttendance(type, options) of the page
FirstCall(t) ==
    /\ pc = "idle"
    /\ Begin(t)
    /\ UNCHANGED <<env, stores, aux>>

\* verifyAttendance is called again with the same type once the first call
\* is over; what the first call produced is kept aside for comparison
SecondCall ==
    /\ pc \in {"returned", "threw"}
    /\ prev = NoCall
    /\ Begin(type)
    /\ prev' = [pc |-> pc, type |-> type, fix |-> fix, log |-> log,
                verification |-> verification]
    /\ UNCHANGED <<env, stores, probe>>

NextTwice ==
    \/ \E t \in Types : FirstCall(t)
    \/ SecondCall
    \/ GpsVerification
    \/ GpsSkipped
    \/ TimeVerification
    \/ PatternVerification
    \/ PatternThrows
    \/ AllPassed
    \/ ManualRequest
    \/ \E answer \in BOOLEAN : ManualAnswer(answer)
    \/ FallbackRequest
    \/ \E answer \in BOOLEAN : FallbackAnswer(answer)

SpecTwice == InitTwice /\ [][NextTwice]_vars

SecondCallOver == prev # NoCall /\ pc \in {"returned", "threw"}

\* the second call was given what the first was given: the same type, the
\* same fix, and the same outcome of every collaborator call both calls made
\* (window, history, clock and settings are frozen for the whole behaviour)
SameInputs ==
    /\ type = prev.type
    /\ fix = prev.fix
    /\ \A i \in (DOMAIN log) \cap (DOMAIN prev.log) : log[i] = prev.log[i]

\* C18: two calls of verifyAttendance with identical frozen inputs end the
\* same way, make the same collaborator calls and return verdicts that agree
\* on verified, method, location and metadata.
C18_SameInputsSameVerdict ==
    (SecondCallOver /\ SameInputs) =>
        /\ pc = prev.pc
        /\ log = prev.log
        /\ verification.verified = prev.verification.verified
        /\ verification.method = prev.verification.method
        /\ verification.location = prev.verification.location
        /\ verification.metadata = prev.verification.metadata

\* a second call that repeats a first call settled by a confirmed dialog
C18_Witness ==
    /\ SecondCallOver
    /\ SameInputs
    /\ Returned
    /\ verification.method = "manual"
    /\ verification.verified
    /\ Made("manualVerification", {"confirm"})

\* ------------------------------------------- the shape of returned verdicts
HasLocation == verification.location # NoLocation

ManualRequests == {i \in 1..Len(log) : log[i].call = "manualVerification"}

LocationCalls ==
    {i \in 1..Len(log) :
        log[i].call \in {"getCurrentLocation", "isInOfficeRange",
                         "getRecentLocations"}}

\* C21: in every returned verdict, method 'gps' implies a location and
\* verified = true, method 'manual' implies no location, and a location with
\* a method other than 'gps' occurs only with method 'manual_fallback'.
C21_MethodAndLocation ==
    Returned =>
        /\ verification.method = "gps" => (HasLocation /\ verification.verified)
        /\ verification.method = "manual" => ~HasLocation
        /\ (HasLocation /\ verification.method # "gps") =>
               verification.method = "manual_fallback"

C21_Witness ==
    /\ Returned
    /\ HasLocation
    /\ verification.method = "manual_fallback"
    /\ ~verification.verified
    /\ HistoryThrew

\* C22: the manual-confirmation step is requested at most once per call,
\* on every path.
C22_ManualAtMostOnce == Cardinality(ManualRequests) <= 1

\* C24: with GPS.ANTI_SPOOFING off, a call never reads the location
\* provider and never returns method 'gps'; a call that is over, whichever
\* way, has requested manual confirmation.
C24_FlagOffDisablesGps ==
    ~antiSpoofing =>
        /\ LocationCalls = {}
        /\ fix.kind = "unread"
        /\ Returned => (verification.method # "gps" /\ ~HasLocation)
        /\ (Returned \/ Escaped) => ManualRequested

C24_Witness ==
    /\ ~antiSpoofing
    /\ Returned
    /\ verification.method = "manual"
    /\ verification.verified
    /\ timeVerification.verified
    /\ patternVerification.verified

\* C25: a current-location sample whose latitude or longitude is exactly 0
\* is an invalid fix: not verified, with the reason given for absent
\* coordinates, and neither the range check nor any spoofing check runs.
C25_ZeroCoordinateInvalid ==
    (fix.kind = "sample" /\ (fix.latitude = 0 \/ fix.longitude = 0)) =>
        /\ gpsVerification = [verified |-> FALSE, reason |-> "invalid location"]
        /\ ~Made("isInOfficeRange", {"ok", "throw"})
        /\ ~Made("getRecentLocations", {"ok", "throw"})
        /\ ~HasLocation

C25_Witness ==
    /\ Returned
    /\ fix.kind = "sample"
    /\ fix.latitude = OfficeLat
    /\ fix.longitude = 0
    /\ verification.method = "manual"
    /\ Made("getCurrentLocation", {"ok"})

\* ------------------------------------------------------------- termination
\* a step of a call that waits on nothing but a provider
ProviderStep ==
    \/ GpsVerification
    \/ GpsSkipped
    \/ TimeVerification
    \/ PatternVerification
    \/ PatternThrows
    \/ AllPassed
    \/ ManualRequest
    \/ FallbackRequest

\* the user answers the dialog that is open
DialogStep ==
    \/ \E answer \in BOOLEAN : ManualAnswer(answer)
    \/ \E answer \in BOOLEAN : FallbackAnswer(answer)

NextLive == (\E t \in Types : Call(t)) \/ ProviderStep \/ DialogStep

\* the history: empty, or one check-out at 18:00 the day before (which way
\* the pattern check goes changes no branch of the call)
LiveHistories ==
    {<<>>, << [type |-> "check_out", timestamp |-> 9 * 86400000 + 1080 * 60000] >>}

InitLive ==
    \E spoof \in BOOLEAN, clock \in TwiceClocks,
       offs \in TwiceWindows, history \in LiveHistories :
        IdleWith(spoof, RecentWindow(offs, clock), history, EmptyMeta, clock)

\* every provider call completes or fails, every open dialog is answered
SpecLive ==
    /\ InitLive
    /\ [][NextLive]_vars
    /\ WF_vars(ProviderStep)
    /\ WF_vars(DialogStep)

Running == pc \in {"gps", "time", "pattern", "aggregate", "manual", "catch",
                   "fallback"}

\* C26: provided every provider call completes or fails and the dialog is
\* eventually answered, every call of verifyAttendance eventually returns a
\* verdict or fails.
C26_CallTerminates == Running ~> (Returned \/ Escaped)

C26_Witness ==
    /\ Returned
    /\ HistoryThrew
    /\ verification.method = "manual_fallback"
    /\ Made("manualVerification", {"cancel"})
    /\ ~HasLocation

\* --------------------------------------------------------- recordAttendance
\* permission names as sequences of tokens: 'attendance.record' is
\* <<"attendance", ".", "record">>
PermRecord == <<"attendance", ".", "record">>
PermStar == <<"*">>
PermAttendanceAll == <<"attendance", ".", "*">>
PermAttendanceView == <<"attendance", ".", "view">>
PermReportsAll == <<"reports", ".", "*">>

PermissionSets ==
    { {}, {PermRecord}, {PermStar}, {PermAttendanceAll}, {PermAttendanceView},
      {PermReportsAll}, {PermAttendanceView, PermReportsAll} }

\* p.split('.*')[0]: what precedes the first '.*' of p, p itself if none
SplitHead(p) ==
    LET at == {i \in 1..(Len(p) - 1) : p[i] = "." /\ p[i + 1] = "*"}
    IN  IF at = {} THEN p
        ELSE SubSeq(p, 1, (CHOOSE i \in at : \A j \in at : i <= j) - 1)

\* s.startsWith(prefix)
StartsWith(str, prefix) ==
    Len(prefix) <= Len(str) /\ SubSeq(str, 1, Len(prefix)) = prefix

hasPermission(permission) ==
    IF userPermissions = {}
    THEN FALSE
    ELSE \/ permission \in userPermissions
         \/ PermStar \in userPermissions
         \/ \E p \in userPermissions : StartsWith(permission, SplitHead(p))

\* the record built from a verdict
createAttendanceRecord(t, v) ==
    [userId |-> currentUser.id,
     type |-> t,
     location |-> v.location,
     verification |-> [method |-> v.method, level |-> recordLevel(v),
                       metadata |-> v.metadata],
     status |-> "pending",
     synced |-> FALSE]

\* this.currentUser when nobody is signed in
NoUser == [kind |-> "null"]

mayPersist_any(v) == TRUE

\* if (!verification.verified) throw
mayPersist(v) == v.verified

InitRecord ==
    /\ antiSpoofing \in BOOLEAN
    /\ now = Today + 480 * 60000 + 30000
    /\ recentLocations = <<>>
    /\ userAttendance = <<>>
    /\ settings = EmptyMeta
    /\ pc = "idle"
    /\ type = "check_in"
    /\ verification = [verified |-> FALSE, method |-> "manual",
                       location |-> NoLocation, timestamp |-> now,
                       metadata |-> EmptyMeta]
    /\ fix = [kind |-> "unread"]
    /\ gpsVerification = NotRun
    /\ timeVerification = NotRun
    /\ patternVerification = NotRun
    /\ log = <<>>
    /\ currentUser \in {NoUser, [id |-> 1]}
    /\ attendanceRecords = <<>>
    /\ userPermissions \in PermissionSets
    /\ recordPc = "start"
    /\ loading = "never"
    /\ NoBackground
    /\ probe = NoProbe
    /\ prev = NoCall

\* no user or no permission: throw, catch, finally hideLoading
RecordRefused ==
    /\ recordPc = "start"
    /\ currentUser = NoUser \/ ~hasPermission(PermRecord)
    /\ recordPc' = "threw"
    /\ loading' = "hidden"
    /\ UNCHANGED <<env, aux, offlineSync, worker, currentUser, attendanceRecords,
                   userPermissions,
                   pc, type, verification, fix, gpsVerification,
                   timeVerification, patternVerification, log>>

\* showLoading, then verifyAttendance(type, options) is called
RecordBegins(t) ==
    /\ recordPc = "start"
    /\ currentUser # NoUser
    /\ hasPermission(PermRecord)
    /\ loading' = "shown"
    /\ recordPc' = "verifying"
    /\ pc = "idle"
    /\ Begin(t)
    /\ UNCHANGED <<env, aux, offlineSync, worker, currentUser, attendanceRecords,
                   userPermissions>>

\* verifyAttendance threw: catch, finally hideLoading
RecordEscaped ==
    /\ recordPc = "verifying"
    /\ pc = "threw"
    /\ recordPc' = "threw"
    /\ loading' = "hidden"
    /\ UNCHANGED <<env, aux, offlineSync, worker, currentUser, attendanceRecords,
                   userPermissions,
                   pc, type, verification, fix, gpsVerification,
                   timeVerification, patternVerification, log>>

\* the verdict is not verified: throw, catch, finally hideLoading
RecordRejected ==
    /\ recordPc = "verifying"
    /\ pc = "returned"
    /\ ~mayPersist(verification)
    /\ recordPc' = "threw"
    /\ loading' = "hidden"
    /\ UNCHANGED <<env, aux, offlineSync, worker, currentUser, attendanceRecords,
                   userPermissions,
                   pc, type, verification, fix, gpsVerification,
                   timeVerification, patternVerification, log>>

\* the record is created and handed to attendance.record; that call or a
\* later one (UI update, notification) may throw; finally hideLoading
RecordSaved ==
    /\ recordPc = "verifying"
    /\ pc = "returned"
    /\ mayPersist(verification)
    /\ \E outcome \in {"saved", "record throws", "later throws"} :
          /\ attendanceRecords' =
                IF outcome = "record throws"
                THEN attendanceRecords
                ELSE Append(attendanceRecords,
                            createAttendanceRecord(type, verification))
          /\ log' = Append(log, Entry("attendance.record",
                                      IF outcome = "record throws"
                                      THEN "throw" ELSE "ok"))
          /\ recordPc' = IF outcome = "saved" THEN "done" ELSE "threw"
    /\ loading' = "hidden"
    /\ UNCHANGED <<env, aux, offlineSync, worker, currentUser, userPermissions,
                   pc, type,
                   verification, fix, gpsVerification, timeVerification,
                   patternVerification>>

NextRecord ==
    \/ RecordRefused
    \/ \E t \in Types : RecordBegins(t)
    \/ ProviderStep
    \/ DialogStep
    \/ RecordEscaped
    \/ RecordRejected
    \/ RecordSaved

SpecRecord == InitRecord /\ [][NextRecord]_vars

\* the user holds 'attendance.record', by name or through a wildcard
Granted ==
    \/ PermRecord \in userPermissions
    \/ PermStar \in userPermissions
    \/ PermAttendanceAll \in userPermissions

RecordOver == recordPc \in {"done", "threw"}

\* C23: a record is persisted only after verifyAttendance returned a
\* verified verdict; without a user or without the permission the call
\* throws before any provider is read; an unverified verdict makes it throw
\* with no record created; on every path the loading indicator ends hidden.
C23_PersistOnlyVerified ==
    /\ attendanceRecords # <<>> =>
          /\ Returned
          /\ verification.verified
          /\ Len(attendanceRecords) = 1
          /\ attendanceRecords[1].verification.method = verification.method
    /\ (currentUser = NoUser \/ ~Granted) =>
          /\ recordPc \in {"start", "threw"}
          /\ pc = "idle"
          /\ log = <<>>
          /\ fix.kind = "unread"
          /\ attendanceRecords = <<>>
    /\ (RecordOver /\ Returned /\ ~verification.verified) =>
          /\ recordPc = "threw"
          /\ attendanceRecords = <<>>
          /\ ~Made("attendance.record", {"ok", "throw"})
    /\ RecordOver => loading = "hidden"
    /\ recordPc = "verifying" => loading = "shown"

C23_Witness ==
    /\ recordPc = "done"
    /\ Len(attendanceRecords) = 1
    /\ attendanceRecords[1].verification.method = "manual"
    /\ attendanceRecords[1].verification.level = "low"
    /\ PermAttendanceAll \in userPermissions
    /\ loading = "hidden"

\* ---------------------------------------------------------- syncOfflineData
\* the verifier and recordAttendance at rest
VerifierAtRest ==
    /\ antiSpoofing = TRUE
    /\ now = ProbeBase
    /\ recentLocations = <<>>
    /\ userAttendance = <<>>
    /\ settings = EmptyMeta
    /\ pc = "idle"
    /\ type = "check_in"
    /\ verification = [verified |-> FALSE, method |-> "manual",
                       location |-> NoLocation, timestamp |-> now,
                       metadata |-> EmptyMeta]
    /\ fix = [kind |-> "unread"]
    /\ gpsVerification = NotRun
    /\ timeVerification = NotRun
    /\ patternVerification = NotRun
    /\ log = <<>>
    /\ currentUser = [id |-> 1]
    /\ attendanceRecords = <<>>
    /\ userPermissions = {}
    /\ recordPc = "none"
    /\ loading = "never"
    /\ probe = NoProbe
    /\ prev = NoCall

verifier == <<env, aux, currentUser, attendanceRecords, userPermissions,
              recordPc, loading, pc, type, verification, fix, gpsVerification,
              timeVerification, patternVerification, log>>

MaxPending == 2

InitSync ==
    /\ VerifierAtRest
    /\ NoBackground

mayStart_always(syncing) == TRUE

\* if (this.syncManager.isSyncing) return;
mayStart(syncing) == ~syncing

\* a trigger calls syncOfflineData: the test of isSyncing and its setting
\* run without an await in between
SyncCall(tr) ==
    /\ syncRun[tr].pc \in {"idle", "returned"}
    /\ IF mayStart(isSyncing)
       THEN /\ isSyncing' = TRUE
            /\ syncRun' = [syncRun EXCEPT ![tr] =
                   [pc |-> "fetching", sawSyncing |-> isSyncing,
                    left |-> 0, successCount |-> 0, failCount |-> 0,
                    ended |-> "no"]]
       ELSE /\ isSyncing' = isSyncing
            /\ syncRun' = [syncRun EXCEPT ![tr] =
                   [pc |-> "returned", sawSyncing |-> isSyncing,
                    left |-> 0, successCount |-> 0, failCount |-> 0,
                    ended |-> "skipped"]]
    /\ UNCHANGED <<verifier, worker>>

\* offline.getPendingItems() settles: it throws, or returns n items; with
\* none, or after a throw, the finally block resets isSyncing
GetPendingItems(tr) ==
    /\ syncRun[tr].pc = "fetching"
    /\ \E n \in (0..MaxPending) \cup {Absent} :
          IF n = Absent \/ n = 0
          THEN /\ syncRun' = [syncRun EXCEPT ![tr].pc = "returned",
                                  ![tr].ended = IF n = 0 THEN "nothing pending"
                                                ELSE "fetch threw"]
               /\ isSyncing' = FALSE
          ELSE /\ syncRun' = [syncRun EXCEPT ![tr].pc = "processing",
                                              ![tr].left = n]
               /\ isSyncing' = isSyncing
    /\ UNCHANGED <<verifier, worker>>

\* processOfflineItem(item) settles; after the last item the summary is
\* shown and the finally block resets isSyncing
ProcessOfflineItem(tr) ==
    /\ syncRun[tr].pc = "processing"
    /\ \E ok \in BOOLEAN :
          LET run == [syncRun[tr] EXCEPT
                         !.left = @ - 1,
                         !.successCount = IF ok THEN @ + 1 ELSE @,
                         !.failCount = IF ok THEN @ ELSE @ + 1]
          IN  IF run.left = 0
              THEN /\ syncRun' = [syncRun EXCEPT ![tr] =
                          [run EXCEPT !.pc = "returned", !.ended = "complete"]]
                   /\ isSyncing' = FALSE
              ELSE /\ syncRun' = [syncRun EXCEPT ![tr] = run]
                   /\ isSyncing' = isSyncing
    /\ UNCHANGED <<verifier, worker>>

NextSync ==
    \/ \E tr \in Triggers : SyncCall(tr)
    \/ \E tr \in Triggers : GetPendingItems(tr)
    \/ \E tr \in Triggers : ProcessOfflineItem(tr)

SpecSync == InitSync /\ [][NextSync]_vars

ActiveSyncs == {tr \in Triggers : syncRun[tr].pc \in {"fetching", "processing"}}

\* C27: at most one run of syncOfflineData processes pending items at a
\* time; a call made while isSyncing is true returns without processing
\* anything; isSyncing is false again once a run has ended, whether it
\* completed, an item failed or getPendingItems threw.
C27_SyncMutualExclusion ==
    /\ Cardinality(ActiveSyncs) <= 1
    /\ isSyncing <=> ActiveSyncs # {}
    /\ \A tr \in Triggers :
          (syncRun[tr].pc # "idle" /\ syncRun[tr].sawSyncing) =>
              /\ syncRun[tr].pc = "returned"
              /\ syncRun[tr].ended = "skipped"
              /\ syncRun[tr].successCount + syncRun[tr].failCount = 0

C27_Witness ==
    /\ syncRun["online"].pc = "processing"
    /\ syncRun["online"].failCount = 1
    /\ syncRun["timer"].pc = "returned"
    /\ syncRun["timer"].sawSyncing
    /\ syncRun["visibility"].pc = "returned"
    /\ syncRun["visibility"].ended = "fetch threw"
    /\ isSyncing

\* ------------------------------------------- service worker: attendance queue
MaxQueue == 3

\* queued records, by id
Records == 1..MaxQueue

Range(q) == {q[i] : i \in DOMAIN q}

\* queues of distinct records
Queues ==
    {q \in SeqsUpTo(Records, MaxQueue) :
        \A i, j \in DOMAIN q : i # j => q[i] # q[j]}

QueueAtRest(q) ==
    /\ VerifierAtRest
    /\ isSyncing = FALSE
    /\ syncRun = [tr \in Triggers |-> NoSyncCall]
    /\ attendanceQueue = q
    /\ swRun = [r \in SwRuns |-> NoSwRun]
    /\ posted = {}
    /\ queued = Range(q)
    /\ clientMessages = <<>>

\* sync event 'sync-attendance': getStoredData('attendance_queue') returns
\* the stored queue, or null when the cache cannot be read
SwGetStoredData(r) ==
    /\ swRun[r].pc = "idle"
    /\ \E readable \in BOOLEAN :
          swRun' = [swRun EXCEPT ![r] =
              IF readable /\ Len(attendanceQueue) > 0
              THEN [pc |-> "posting", attendanceData |-> attendanceQueue,
                    results |-> [i \in DOMAIN attendanceQueue |-> "pending"]]
              ELSE [pc |-> "done", attendanceData |-> <<>>,
                    results |-> <<>>]]
    /\ UNCHANGED <<verifier, offlineSync, attendanceQueue, posted, queued,
                   clientMessages>>

\* syncAttendanceRecord(record) settles for one record of the snapshot
SwPostSettles(r, i) ==
    /\ swRun[r].pc = "posting"
    /\ i \in DOMAIN swRun[r].results
    /\ swRun[r].results[i] = "pending"
    /\ \E ok \in BOOLEAN :
          /\ swRun' = [swRun EXCEPT ![r].results[i] =
                           IF ok THEN "fulfilled" ELSE "rejected"]
          /\ posted' = IF ok THEN posted \cup {swRun[r].attendanceData[i]}
                       ELSE posted
    /\ UNCHANGED <<verifier, offlineSync, attendanceQueue, queued,
                   clientMessages>>

\* attendanceData.filter((_, index) => results[index].status === 'rejected')
failedRecords(attendanceData, results) ==
    LET rejected == {i \in DOMAIN attendanceData : results[i] = "rejected"}
        RECURSIVE Keep(_)
        Keep(k) == IF k > Len(attendanceData) THEN <<>>
                   ELSE (IF k \in rejected THEN <<attendanceData[k]>> ELSE <<>>)
                        \o Keep(k + 1)
    IN  Keep(1)

\* Promise.allSettled is over: storeData('attendance_queue', failedRecords);
\* storeData swallows a failed cache.put and its result is not looked at
SwStoreData(r) ==
    /\ swRun[r].pc = "posting"
    /\ \A i \in DOMAIN swRun[r].results : swRun[r].results[i] # "pending"
    /\ \E putOk \in BOOLEAN :
          attendanceQueue' =
              IF putOk
              THEN failedRecords(swRun[r].attendanceData, swRun[r].results)
              ELSE attendanceQueue
    /\ swRun' = [swRun EXCEPT ![r].pc = "notifying"]
    /\ UNCHANGED <<verifier, offlineSync, posted, queued, clientMessages>>

\* clients.matchAll(), then SYNC_COMPLETE to every client; a throw is caught
SwNotify(r) ==
    /\ swRun[r].pc = "notifying"
    /\ \E clientsOk \in BOOLEAN :
          clientMessages' =
              IF clientsOk
              THEN Append(clientMessages,
                     [type |-> "SYNC_COMPLETE",
                      run |-> r,
                      success |-> Cardinality({i \in DOMAIN swRun[r].results :
                                      swRun[r].results[i] = "fulfilled"}),
                      failed |-> Len(failedRecords(swRun[r].attendanceData,
                                                   swRun[r].results))])
              ELSE clientMessages
    /\ swRun' = [swRun EXCEPT ![r].pc = "done"]
    /\ UNCHANGED <<verifier, offlineSync, attendanceQueue, posted, queued>>

\* one run, nobody else writes the queue
InitDrain == \E q \in Queues : QueueAtRest(q)

NextDrain ==
    \/ SwGetStoredData(1)
    \/ \E i \in Records : SwPostSettles(1, i)
    \/ SwStoreData(1)
    \/ SwNotify(1)

SpecDrain == InitDrain /\ [][NextDrain]_vars

\* the records of a queue the server has not accepted, in queue order
NotPosted(q) == SelectSeq(q, LAMBDA rec : rec \notin posted)

\* C28: after a run of syncAttendanceData with no concurrent writer, the
\* stored queue holds exactly the records whose POST did not succeed, in
\* their original order, and the SYNC_COMPLETE message reports
\* success + failed equal to the number of records that were in the queue.
C28_QueueKeepsFailedOnly ==
    swRun[1].pc = "done" =>
        /\ Range(attendanceQueue) \cap posted = {}
        /\ Len(swRun[1].attendanceData) > 0 =>
               attendanceQueue = NotPosted(swRun[1].attendanceData)
        /\ \A m \in DOMAIN clientMessages :
               clientMessages[m].success + clientMessages[m].failed
                   = Len(swRun[1].attendanceData)

\* message STORE_DATA for 'attendance_queue': the page stores the queue it
\* sees with one more record; a failed cache.put is swallowed
StoreDataMessage(rec) ==
    /\ rec \notin queued
    /\ \E putOk \in BOOLEAN :
          IF putOk
          THEN /\ attendanceQueue' = Append(attendanceQueue, rec)
               /\ queued' = queued \cup {rec}
          ELSE UNCHANGED <<attendanceQueue, queued>>
    /\ UNCHANGED <<verifier, offlineSync, swRun, posted, clientMessages>>

\* sync runs and queue writes interleave
InitRace == \E q \in Queues : Len(q) <= 1 /\ QueueAtRest(q)

NextRace ==
    \/ \E r \in SwRuns : SwGetStoredData(r)
    \/ \E r \in SwRuns, i \in Records : SwPostSettles(r, i)
    \/ \E r \in SwRuns : SwStoreData(r)
    \/ \E r \in SwRuns : SwNotify(r)
    \/ \E rec \in Records : StoreDataMessage(rec)

SpecRace == InitRace /\ [][NextRace]_vars

\* C29: every record ever stored in the queue is still in the queue or has
\* been POSTed successfully, under any interleaving of sync runs and
\* STORE_DATA writes of the queue.
C29_NoRecordLost ==
    \A rec \in queued : rec \in Range(attendanceQueue) \/ rec \in posted
====
